---------------------------- MODULE Spec2Model ----------------------------
(* T-espresso (cuprof): the data plane of the GPU trace profiler.          *)
(*                                                                         *)
(* The model follows the repository's sources under src/lib:               *)
(*   Common.h              the shard layout (traceinfo_t, SLOTS_SIZE,      *)
(*                         SLOTS_NUM)                                      *)
(*   InstrumentDevice.cpp  the shard a kernel binds to (smid & (N-1)) and  *)
(*                         the ___cuprof_trace call sites                  *)
(*   InstrumentHost.cpp    the host calls placed around a kernel launch    *)
(*                                                                         *)
(* The bodies of ___cuprof_trace (device runtime) and of the host consumer *)
(* thread are not among these sources; the ring-buffer protocol of a shard *)
(* (reserve, write, advance_commit, drain, teardown) is modelled from      *)
(* section 4.2, 4.4 and 5 of the specification.                            *)
EXTENDS Integers, Naturals, Sequences, FiniteSets, TLC

(***************************************************************************)
(* Sizes                                                                   *)
(***************************************************************************)

\* Common.h:29 -- number of shards ("slots"), a power of two.
SLOTS_NUM == 4

\* Threads of one lockstep group (32 on the hardware: Common.h:24-25,
\* "absolute minimum is the warp size").
WarpSize == 2

\* Common.h:27 -- records per shard.  64 in the program (two warps of 32);
\* scaled with the warp: one record more than a warp, so that a shard can
\* be full while it holds a whole group and a single record.
SLOTS_SIZE == WarpSize + 1

\* alloc and commit are unsigned counters read modulo their width (2^32 in
\* the program, 64 * 2^26).  The model keeps the width a multiple of the
\* shard capacity, as 2^32 is of 64.
WrapLaps == 4
CounterMod == SLOTS_SIZE * WrapLaps

\* Number of lockstep groups (warps) of the launched kernel.
NumGroups == 3

\* Records the groups trace during the session, over all shards.
MaxRecords == 5

\* Hardware processors (%smid) the groups may run on.
MaxSmid == 5

Shards == 0 .. (SLOTS_NUM - 1)
Groups == 1 .. NumGroups
Lanes  == 1 .. WarpSize
Positions == 0 .. (SLOTS_SIZE - 1)
NoSlot == -1
Empty  == -1

(***************************************************************************)
(* Helpers                                                                 *)
(***************************************************************************)

RECURSIVE BitAnd(_, _)
\* bitwise and of two naturals (irb.CreateAnd)
BitAnd(a, b) ==
  IF a = 0 \/ b = 0 THEN 0
  ELSE (IF a % 2 = 1 /\ b % 2 = 1 THEN 1 ELSE 0) + 2 * BitAnd(a \div 2, b \div 2)

\* a mask of SLOTS_NUM instead of SLOTS_NUM - 1
ShardOfWideMask(sm) == BitAnd(sm, SLOTS_NUM)

\* InstrumentDevice.cpp:429-430 -- slot = smid & (SLOTS_NUM - 1)
ShardOf(sm) == BitAnd(sm, SLOTS_NUM - 1)

\* the stored value of a counter
Wrap(x) == x % CounterMod

\* a - b as the program reads it: a difference of the stored values
Diff(a, b) == ((Wrap(a) - Wrap(b)) + CounterMod) % CounterMod

\* records[index mod capacity]
Pos(i) == Wrap(i) % SLOTS_SIZE

RECURSIVE SumOver(_, _)
SumOver(S, f) ==
  IF S = {} THEN 0
  ELSE LET x == CHOOSE y \in S : TRUE IN f[x] + SumOver(S \ {x}, f)

Max(S) == CHOOSE x \in S : \A y \in S : y <= x

VARIABLES
  hostpc,        \* the host's place around the kernel launch
  smid,          \* smid[g]: the processor group g runs on
  pc,            \* pc[g]: "idle", "waiting" (in reserve) or "writing"
  n,             \* n[g]: active threads of g in its current trace call
  slot,          \* slot[g][l]: the index lane l of g holds, or NoSlot
  todo,          \* todo[g]: lanes of g that hold a slot and have not written
  alloc,         \* alloc[s]: records reserved in shard s so far
  commit,        \* commit[s]: records of shard s safe to drain
  last_drained,  \* last_drained[s]: the Drainer's place in shard s
  complete,      \* complete[s]: indices >= commit whose write has finished
  records,       \* records[s][p]: the record stored at position p
  cursor,        \* the shard the Drainer visits next
  stream,        \* the frames written to the TraceStream, in order
  drops,         \* the drop counter of the session summary
  file,          \* the bytes of the trace file (cutrace_io.h)
  fpc,           \* "new", "write", "closed", "read", "failed" or "end"
  written,       \* the frames handed to the writer, with their place
  cut,           \* bytes removed from the end of the closed file
  rver,          \* trace_t.version of the reader, 0 while there is none
  rpos,          \* the reader's place in the file
  ret,           \* what the last call returned, -1 before any call
  err,           \* trace_last_error, "NULL" when unset
  got,           \* the frames trace_next returned, with their place
  kernel,        \* the number of the instrumented launch on the stream
  spent,         \* records reserved by the kernels that have ended
  wrote,         \* wrote[s][p]: the kernel whose thread wrote position p
  origin,        \* origin[j]: the kernel that produced frame j of the stream
  base,          \* the value the counters of the shards started from
  ctaid,         \* %ctaid.x, .y, .z of a thread entering a kernel
  cta_arg,       \* the serialized cta id the trace call is handed
  cta_opt,       \* the same cta as the "cta" filter option packs it
  ctapc,         \* which of the two have been computed
  sms,           \* %smid of two threads entering a kernel
  info           \* info[t]: the offsets thread t computed for its shard

sessvars == <<kernel, spent, wrote, origin, base>>
ringvars == <<hostpc, smid, pc, n, slot, todo, alloc, commit, last_drained,
              complete, records, cursor, stream, drops, sessvars>>
iovars == <<file, fpc, written, cut, rver, rpos, ret, err, got>>
ctavars == <<ctaid, cta_arg, cta_opt, ctapc, sms, info>>
elsevars == <<iovars, ctavars>>

vars == <<ringvars, iovars, ctavars>>

hostvars  == <<hostpc>>
groupvars == <<smid, pc, n, slot, todo>>
shardvars == <<alloc, commit, last_drained, complete, records>>
drainvars == <<cursor, stream, drops>>

HeaderFrame       == [kind |-> "header", shard |-> -1, id |-> 0]
KernelFrame(k)    == [kind |-> "kernel", shard |-> -1, id |-> k]
RecordFrame(s, r) == [kind |-> "record", shard |-> s, id |-> r]

NoSlots == [l \in Lanes |-> NoSlot]

\* no trace file is being written or read
NoFile ==
  /\ file = <<>>
  /\ fpc = "new"
  /\ written = <<>>
  /\ cut = 0
  /\ rver = 0
  /\ rpos = 0
  /\ ret = -1
  /\ err = "NULL"
  /\ got = <<>>

\* no thread has entered a kernel
NoCta ==
  /\ ctaid = <<>>
  /\ cta_arg = <<>>
  /\ cta_opt = <<>>
  /\ ctapc = {}
  /\ sms = <<>>
  /\ info = <<>>

\* the state after construction, the counters of the shards standing at b
InitFrom(b) ==
  /\ hostpc = "configured"
  /\ smid \in [Groups -> {0, MaxSmid}]
  /\ pc = [g \in Groups |-> "idle"]
  /\ n = [g \in Groups |-> 0]
  /\ slot = [g \in Groups |-> NoSlots]
  /\ todo = [g \in Groups |-> {}]
  /\ alloc = [s \in Shards |-> b]
  /\ commit = [s \in Shards |-> b]
  /\ last_drained = [s \in Shards |-> b]
  /\ complete = [s \in Shards |-> {}]
  /\ records = [s \in Shards |-> [p \in Positions |-> Empty]]
  /\ cursor = 0
  /\ stream = <<>>
  /\ drops = 0
  /\ kernel = 1
  /\ spent = 0
  /\ wrote = [s \in Shards |-> [p \in Positions |-> 0]]
  /\ origin = <<>>
  /\ base = b
  /\ NoFile
  /\ NoCta

Init == InitFrom(0)


(***************************************************************************)
(* Host side: the calls InstrumentHost::patchKernelCall places around a    *)
(* kernel launch, in program order.                                        *)
(***************************************************************************)

\* InstrumentHost.cpp:190 -- __trace_touch(stream): a consumer exists; the
\* first touch creates it, and with it the TraceStream and its header
TraceTouch ==
  /\ hostpc = "configured"
  /\ hostpc' = "touched"
  /\ stream' = IF stream = <<>> THEN <<HeaderFrame>> ELSE stream
  /\ origin' = IF stream = <<>> THEN <<0>> ELSE origin
  /\ UNCHANGED <<groupvars, shardvars, cursor, drops, kernel, spent, wrote,
                 base, elsevars>>

\* a start that writes no kernel frame
TraceStartNoFrame ==
  /\ hostpc = "touched"
  /\ hostpc' = "started"
  /\ UNCHANGED <<groupvars, shardvars, drainvars, sessvars, elsevars>>

\* InstrumentHost.cpp:191 -- __trace_start(stream, kernel name): the kernel
\* frame is written
TraceStart ==
  /\ hostpc = "touched"
  /\ hostpc' = "started"
  /\ stream' = Append(stream, KernelFrame(kernel))
  /\ origin' = Append(origin, kernel)
  /\ UNCHANGED <<groupvars, shardvars, cursor, drops, kernel, spent, wrote,
                 base, elsevars>>

\* InstrumentHost.cpp:197 -- __trace_fill_info(info, stream)
TraceFillInfo ==
  /\ hostpc = "started"
  /\ hostpc' = "filled"
  /\ UNCHANGED <<groupvars, shardvars, drainvars, sessvars, elsevars>>

\* InstrumentHost.cpp:198 -- __trace_copy_to_symbol(stream, symbol, info)
TraceCopyToSymbol ==
  /\ hostpc = "filled"
  /\ hostpc' = "copied"
  /\ UNCHANGED <<groupvars, shardvars, drainvars, sessvars, elsevars>>

\* a launch placed before the copy of the info to the device
LaunchBeforeCopy ==
  /\ hostpc = "filled"
  /\ hostpc' = "launched"
  /\ UNCHANGED <<groupvars, shardvars, drainvars, sessvars, elsevars>>

\* the kernel launch the calls are placed around (searchKernelLaunchFor)
Launch ==
  /\ hostpc = "copied"
  /\ hostpc' = "launched"
  /\ UNCHANGED <<groupvars, shardvars, drainvars, sessvars, elsevars>>

(***************************************************************************)
(* Producers: one lockstep group per ___cuprof_trace call                  *)
(***************************************************************************)

\* records asked of shard s by the groups waiting in reserve
Pending(s) ==
  SumOver({g \in Groups : pc[g] = "waiting" /\ ShardOf(smid[g]) = s}, n)

\* A group reaches a traced instruction with k active threads
\* (InstrumentDevice.cpp:551-552, 603-604, 625-626: the call sites).
Request(g, k) ==
  /\ hostpc = "launched"
  /\ pc[g] = "idle"
  /\ spent + SumOver(Shards, [s \in Shards |-> alloc[s] - base + Pending(s)])
       + k <= MaxRecords
  /\ pc' = [pc EXCEPT ![g] = "waiting"]
  /\ n' = [n EXCEPT ![g] = k]
  /\ UNCHANGED <<hostvars, smid, slot, todo, shardvars, drainvars, sessvars,
                 elsevars>>

\* a capacity test that forgets the size of the batch
CanReserveIgnoringBatch(s, k) == Diff(alloc[s], commit[s]) < SLOTS_SIZE

\* a capacity test that leaves the last free slot unused
CanReserveStrict(s, k) == Diff(alloc[s], commit[s]) + k < SLOTS_SIZE

\* reserve(k) succeeds only if alloc - commit + k <= capacity
CanReserve(s, k) == Diff(alloc[s], commit[s]) + k <= SLOTS_SIZE

\* a batch whose last active lane is left without a slot
BatchSlotsShort(a, k) == [l \in Lanes |-> IF l < k THEN a + (l - 1) ELSE NoSlot]

\* the slots a batch of k threads obtains when alloc is a: consecutive
\* indices from a, one per active lane
BatchSlots(a, k) == [l \in Lanes |-> IF l <= k THEN a + (l - 1) ELSE NoSlot]

\* reserve(n) of a whole group: one step, or the group keeps waiting
Reserve(g) ==
  LET s == ShardOf(smid[g]) IN
  /\ hostpc = "launched"
  /\ pc[g] = "waiting"
  /\ CanReserve(s, n[g])
  /\ slot' = [slot EXCEPT ![g] = BatchSlots(alloc[s], n[g])]
  /\ todo' = [todo EXCEPT ![g] = {l \in Lanes : BatchSlots(alloc[s], n[g])[l] # NoSlot}]
  /\ alloc' = [alloc EXCEPT ![s] = alloc[s] + n[g]]
  /\ pc' = [pc EXCEPT ![g] = "writing"]
  /\ UNCHANGED <<hostvars, smid, n, commit, last_drained, complete, records,
                 drainvars, sessvars, elsevars>>

\* write(index, record) of one lane: the record goes to
\* records[index mod capacity] and the slot is marked finished
Write(g, l) ==
  LET s == ShardOf(smid[g])
      i == slot[g][l]
      left == todo[g] \ {l} IN
  /\ hostpc = "launched"
  /\ pc[g] = "writing"
  /\ l \in todo[g]
  /\ records' = [records EXCEPT ![s][Pos(i)] = i]
  /\ wrote' = [wrote EXCEPT ![s][Pos(i)] = kernel]
  /\ complete' = [complete EXCEPT ![s] = complete[s] \cup {i}]
  /\ todo' = [todo EXCEPT ![g] = left]
  /\ IF left = {}
       THEN /\ pc' = [pc EXCEPT ![g] = "idle"]
            /\ slot' = [slot EXCEPT ![g] = NoSlots]
            /\ n' = [n EXCEPT ![g] = 0]
       ELSE UNCHANGED <<pc, slot, n>>
  /\ UNCHANGED <<hostvars, smid, alloc, commit, last_drained, drainvars, kernel,
                 spent, origin, base, elsevars>>

\* commit advanced by the number of finished slots, whatever their order
CommitCount(s) == commit[s] + Cardinality(complete[s])

\* a prefix scanned from the start of the session instead of from commit
CommitPrefixFromZero(s) ==
  Max({commit[s]} \cup
      {p \in commit[s] .. alloc[s] : \A i \in 0 .. (p - 1) : i \in complete[s]})

\* the highest prefix from commit whose every slot has finished writing
CommitPrefix(s) ==
  Max({p \in commit[s] .. alloc[s] :
         \A i \in commit[s] .. (p - 1) : i \in complete[s]})

\* advance_commit: commit moves forward to that prefix
AdvanceCommit(s) ==
  /\ hostpc = "launched"
  /\ CommitPrefix(s) > commit[s]
  /\ commit' = [commit EXCEPT ![s] = CommitPrefix(s)]
  /\ complete' = [complete EXCEPT ![s] = {i \in complete[s] : i >= CommitPrefix(s)}]
  /\ UNCHANGED <<hostvars, groupvars, alloc, last_drained, records, drainvars,
                 sessvars, elsevars>>

(***************************************************************************)
(* Drainer                                                                 *)
(***************************************************************************)

RECURSIVE Yield(_, _, _)
\* a drain that forwards the first record of the range only
YieldFirst(s, from, to) ==
  IF from >= to THEN <<>> ELSE <<RecordFrame(s, records[s][Pos(from)])>>

\* the records of shard s at indices [from, to), as the Drainer reads them
Yield(s, from, to) ==
  IF from >= to THEN <<>>
  ELSE <<RecordFrame(s, records[s][Pos(from)])>> \o Yield(s, from + 1, to)

RECURSIVE YieldOrigin(_, _, _)
\* the kernels whose threads wrote the records at indices [from, to)
YieldOrigin(s, from, to) ==
  IF from >= to THEN <<>>
  ELSE <<wrote[s][Pos(from)]>> \o YieldOrigin(s, from + 1, to)

\* drain(shard): the records in [last_drained, commit) go to the stream,
\* then last_drained := commit; the Drainer visits the shards round-robin
Drain ==
  LET s == cursor IN
  /\ hostpc = "launched"
  /\ stream' = stream \o Yield(s, last_drained[s], commit[s])
  /\ origin' = origin \o YieldOrigin(s, last_drained[s], commit[s])
  /\ last_drained' = [last_drained EXCEPT ![s] = commit[s]]
  /\ cursor' = (cursor + 1) % SLOTS_NUM
  /\ UNCHANGED <<hostvars, groupvars, alloc, commit, complete, records, drops,
                 kernel, spent, wrote, base, elsevars>>

RECURSIVE FinalYield(_)
\* the final drain of every shard from s on, in shard order
FinalYield(s) ==
  IF s >= SLOTS_NUM THEN <<>>
  ELSE Yield(s, last_drained[s], commit[s]) \o FinalYield(s + 1)

RECURSIVE FinalOrigin(_)
FinalOrigin(s) ==
  IF s >= SLOTS_NUM THEN <<>>
  ELSE YieldOrigin(s, last_drained[s], commit[s]) \o FinalOrigin(s + 1)

\* slots reserved whose write had not completed
Unwritten == SumOver(Groups, [g \in Groups |-> Cardinality(todo[g])])

\* InstrumentHost.cpp:203-204 -- __trace_stop(stream) after the launch:
\* teardown.  Every shard is drained once more, the incomplete records are
\* counted as drops and the stream is closed.
TraceStop ==
  /\ hostpc = "launched"
  /\ hostpc' = "stopped"
  /\ stream' = stream \o FinalYield(0)
  /\ origin' = origin \o FinalOrigin(0)
  /\ last_drained' = commit
  /\ drops' = drops + Unwritten
  /\ UNCHANGED <<groupvars, alloc, commit, complete, records, cursor, kernel,
                 spent, wrote, base, elsevars>>

Next ==
  \/ TraceTouch
  \/ TraceStart
  \/ TraceFillInfo
  \/ TraceCopyToSymbol
  \/ Launch
  \/ TraceStop
  \/ \E g \in Groups, k \in Lanes : Request(g, k)
  \/ \E g \in Groups : Reserve(g)
  \/ \E g \in Groups, l \in Lanes : Write(g, l)
  \/ \E s \in Shards : AdvanceCommit(s)
  \/ Drain

Spec == Init /\ [][Next]_vars

\* The counters of a shard that has long been in use stand just below
\* their width: the next reservations take alloc, commit and last_drained
\* across the wrap.
WrapBase == CounterMod - 2

WrapInit ==
  /\ InitFrom(WrapBase)
  /\ smid \in {[g \in Groups |-> 0],
              [g \in Groups |-> IF g = NumGroups THEN MaxSmid ELSE 0]}

WrapSpec == WrapInit /\ [][Next]_vars


(***************************************************************************)
(* A session of several instrumented launches on the stream.  Each launch  *)
(* site is patched the same way (InstrumentHost::runOnModule patches every *)
(* cudaConfigureCall); the shards are allocated once and reused.           *)
(***************************************************************************)

MaxKernels == 2

\* InstrumentHost.cpp:93-111 -- the launch is found behind the branch on the
\* result of cudaConfigureCall ("kcall.configok"), the four calls are placed
\* before that branch: a failed configuration runs them and then neither the
\* launch nor __trace_stop
ConfigureFails ==
  /\ hostpc = "copied"
  /\ hostpc' = "skipped"
  /\ UNCHANGED <<groupvars, shardvars, drainvars, sessvars, elsevars>>

\* the host reaches the next patched cudaConfigureCall: the threads of the
\* kernel before are gone and the shards are reused from their start
NextLaunch ==
  /\ hostpc \in {"stopped", "skipped"}
  /\ kernel < MaxKernels
  /\ hostpc' = "configured"
  /\ kernel' = kernel + 1
  /\ spent' = spent + SumOver(Shards, [s \in Shards |-> alloc[s] - base])
  /\ pc' = [g \in Groups |-> "idle"]
  /\ n' = [g \in Groups |-> 0]
  /\ slot' = [g \in Groups |-> NoSlots]
  /\ todo' = [g \in Groups |-> {}]
  /\ alloc' = [s \in Shards |-> base]
  /\ commit' = [s \in Shards |-> base]
  /\ last_drained' = [s \in Shards |-> base]
  /\ complete' = [s \in Shards |-> {}]
  /\ records' = [s \in Shards |-> [p \in Positions |-> Empty]]
  /\ wrote' = [s \in Shards |-> [p \in Positions |-> 0]]
  /\ UNCHANGED <<smid, drainvars, origin, base, elsevars>>

SessionInit ==
  /\ Init
  /\ smid \in {[g \in Groups |-> 0],
              [g \in Groups |-> IF g = NumGroups THEN MaxSmid ELSE 0]}

SessionNext ==
  \/ Next
  \/ ConfigureFails
  \/ NextLaunch

\* the launches of one session, one after the other on one stream
SessionSpec == SessionInit /\ [][SessionNext]_vars


(***************************************************************************)
(* The trace file: cutrace_io.h.  Values are kept as the bytes the program *)
(* stores; a uint64_t word is written as its eight bytes, least            *)
(* significant first.                                                      *)
(***************************************************************************)

\* Frames written to one file.
MaxFrames == 3

\* Bytes that may be lost from the end of a closed file.
MaxCut == 3

Byte == 0 .. 255

RECURSIVE LE(_, _)
\* the k bytes of a natural, least significant first
LE(x, k) == IF k = 0 THEN <<>> ELSE <<x % 256>> \o LE(x \div 256, k - 1)

RECURSIVE Val(_)
\* the natural stored in bytes, least significant first
Val(bs) == IF bs = <<>> THEN 0 ELSE Head(bs) + 256 * Val(Tail(bs))

Take(bs, k) == SubSeq(bs, 1, k)
Drop(bs, k) == SubSeq(bs, k + 1, Len(bs))

\* bitwise or of two naturals
BitOr(a, b) == a + b - BitAnd(a, b)

\* int32_t as its four bytes and back (two's complement)
Int32Bytes(x) ==
  IF x >= 0 THEN LE(x, 4) ELSE [i \in 1 .. 4 |-> 255 - LE(-x - 1, 4)[i]]
BytesInt32(bs) ==
  IF bs[4] < 128 THEN Val(bs) ELSE -Val([i \in 1 .. 4 |-> 255 - bs[i]]) - 1

\* int8_t as its byte and back
Int8Byte(c) == c % 256
ByteInt8(b) == IF b < 128 THEN b ELSE b - 256

\* sign extension of an int to int64_t: the four upper bytes
SignExt(s) == LET x == IF s[4] >= 128 THEN 255 ELSE 0 IN <<x, x, x, x>>

\* cutrace_io.h:38-39 -- the magic numbers of the two versions
v2 == <<25, 67, 85, 68, 65, 84, 82, 65, 67, 69>>
v3 == <<26, 67, 85, 68, 65, 84, 82, 65, 67, 69>>

\* bytes of a packed record with alen address units: the header of three
\* words, then an address word and a meta word per unit
RECORD_RAW_SIZE(alen) == 24 + 16 * alen

\* the shift forgotten: the offset stored where the count belongs
Shl8NoShift(ob) == ob

\* cutrace_io.h:156 -- offset << 8, computed in int: the bits of the offset
\* pushed past bit 31 are lost
Shl8(ob) == <<0, ob[1], ob[2], ob[3]>>

\* offset * 256 is an int
Shl8Fits(ob) == ob[4] = (IF ob[3] >= 128 THEN 255 ELSE 0)

\* When offset * 256 is no int the shift overflows a signed int, which the
\* language leaves undefined: the stored word is then the wrapped value or
\* another multiple of 256 (here: zero, the largest one).
Shl8Outcomes(ob) ==
  IF Shl8Fits(ob) THEN {Shl8(ob)}
  ELSE {Shl8(ob), <<0, 0, 0, 0>>, <<0, 255, 255, 127>>}

\* the shifted offsets a record's units may be stored with
ShiftChoices(r) ==
  {ss \in [1 .. r.addr_len -> {Shl8(<<0, 0, 0, 0>>)} \cup
             UNION {Shl8Outcomes(Int32Bytes(r.addr_unit[i].offset)) :
                      i \in 1 .. r.addr_len}] :
     \A i \in 1 .. r.addr_len :
       ss[i] \in Shl8Outcomes(Int32Bytes(r.addr_unit[i].offset))}

\* cutrace_io.h:155-156 -- RECORD_ADDR(buf, i) = addr;
\* RECORD_ADDR_META(buf, i) = (offset << 8) | ((int64_t)count & 0xFF),
\* s being the value of offset << 8
PackUnit(u, s) ==
  u.addr \o <<BitOr(s[1], Int8Byte(u.count)), s[2], s[3], s[4]>> \o SignExt(s)

\* RECORD_SET_INIT: the three header words.  Word 0 carries, from its top
\* byte down, the address-unit count (the byte trace_next reads at
\* cutrace_io.h:172), the type, the sm id, the size (16 bits) and the warp
\* (24 bits); word 1 the clock; word 2 the cta id as x, y, z from the top.
RECORD_SET_INIT(r) ==
  LE(r.warp, 3) \o LE(r.size, 2) \o <<r.smid, r.type, r.addr_len>>
  \o r.clock
  \o LE(r.ctaid.z, 2) \o LE(r.ctaid.y, 2) \o LE(r.ctaid.x, 4)

RECURSIVE PackUnits(_, _, _)
PackUnits(r, ss, i) ==
  IF i > r.addr_len THEN <<>>
  ELSE PackUnit(r.addr_unit[i], ss[i]) \o PackUnits(r, ss, i + 1)

\* cutrace_io.h:131-161 -- __trace_pack
TracePack(r, ss) == RECORD_SET_INIT(r) \o PackUnits(r, ss, 1)

\* The accessors of a packed record (the inverse of RECORD_SET_INIT and of
\* the unit words).
RECORD_GET_ALEN(buf)  == buf[8]
RECORD_GET_TYPE(buf)  == buf[7]
RECORD_GET_SMID(buf)  == buf[6]
RECORD_GET_WARP(buf)  == Val(SubSeq(buf, 1, 3))
RECORD_GET_SIZE(buf)  == Val(SubSeq(buf, 4, 5))
RECORD_GET_CLOCK(buf) == SubSeq(buf, 9, 16)
RECORD_GET_CTAX(buf)  == Val(SubSeq(buf, 21, 24))
RECORD_GET_CTAY(buf)  == Val(SubSeq(buf, 19, 20))
RECORD_GET_CTAZ(buf)  == Val(SubSeq(buf, 17, 18))
RECORD_ADDR(buf, i)   == SubSeq(buf, 24 + 16 * (i - 1) + 1, 24 + 16 * (i - 1) + 8)
RECORD_ADDR_META(buf, i) == SubSeq(buf, 24 + 16 * (i - 1) + 9, 24 + 16 * i)
RECORD_GET_OFFSET(buf, i) == BytesInt32(SubSeq(RECORD_ADDR_META(buf, i), 2, 5))
RECORD_GET_COUNT(buf, i)  == ByteInt8(RECORD_ADDR_META(buf, i)[1])

\* cutrace_io.h:110-129 -- __trace_unpack
TraceUnpack(buf) ==
  [addr_len  |-> RECORD_GET_ALEN(buf),
   type      |-> RECORD_GET_TYPE(buf),
   smid      |-> RECORD_GET_SMID(buf),
   warp      |-> RECORD_GET_WARP(buf),
   ctaid     |-> [x |-> RECORD_GET_CTAX(buf),
                  y |-> RECORD_GET_CTAY(buf),
                  z |-> RECORD_GET_CTAZ(buf)],
   clock     |-> RECORD_GET_CLOCK(buf),
   size      |-> RECORD_GET_SIZE(buf),
   addr_unit |-> [i \in 1 .. RECORD_GET_ALEN(buf) |->
                    [addr   |-> RECORD_ADDR(buf, i),
                     offset |-> RECORD_GET_OFFSET(buf, i),
                     count  |-> RECORD_GET_COUNT(buf, i)]]]

FrameKernel(name, bs) == [kind |-> "Kernel", name |-> name, block_size |-> bs]
FrameRecord(r)        == [kind |-> "Record", rec |-> r]
FrameNone             == [kind |-> "None"]

\* cutrace_io.h:164-253 -- trace_next on the bytes f from place pos: what it
\* returns, trace_last_error, the frame it yields and the reader's new place
ReadFrame(f, pos) ==
  LET rest == Drop(f, pos) IN
  IF Len(rest) < 8
    THEN [ret |-> 1, err |-> "NULL", frame |-> FrameNone, pos |-> Len(f)]
  ELSE IF rest[8] = 0
    THEN LET name_len   == rest[7]
             block_size == rest[5] + 256 * rest[6]
         IN IF name_len = 0 \/ Len(rest) < 8 + name_len
              THEN [ret |-> 1, err |-> "unable to read kernel name length",
                    frame |-> FrameNone, pos |-> Len(f)]
              ELSE [ret |-> 0, err |-> "NULL",
                    frame |-> FrameKernel(SubSeq(rest, 9, 8 + name_len), block_size),
                    pos |-> pos + 8 + name_len]
  ELSE IF Len(rest) < RECORD_RAW_SIZE(rest[8])
    THEN [ret |-> 1, err |-> "unable to read record", frame |-> FrameNone,
          pos |-> Len(f)]
  ELSE [ret |-> 0, err |-> "NULL",
        frame |-> FrameRecord(TraceUnpack(Take(rest, RECORD_RAW_SIZE(rest[8])))),
        pos |-> pos + RECORD_RAW_SIZE(rest[8])]

\* cutrace_io.h:102 -- address units the record of a trace_t has room for
ReaderRoom == 32

\* cutrace_io.h:165 -- bytes of trace_next's buffer:
\* uint64_t buf[TRACE_RECORD_SIZE(32)/8+1], TRACE_RECORD_SIZE(32) = 32 + 16 * 32
BufBytes == ((32 + 16 * ReaderRoom) \div 8 + 1) * 8

\* trace_next writes beyond its memory: fread (line 215) stores more bytes
\* than buf holds, or __trace_unpack (lines 124-128) stores more units than
\* the record of the trace_t has room for
Overrun(f, pos) ==
  LET rest  == Drop(f, pos)
      ch    == rest[8]
      bytes == IF Len(rest) < RECORD_RAW_SIZE(ch) THEN Len(rest)
               ELSE RECORD_RAW_SIZE(ch)
  IN  /\ Len(rest) >= 8
      /\ ch # 0
      /\ \/ bytes > BufBytes
         \/ Len(rest) >= RECORD_RAW_SIZE(ch) /\ ch > ReaderRoom

\* what a call of trace_next may do: what the code computes, and where it
\* wrote beyond its memory (undefined behaviour) also the end of the process
ReadOutcomes(f, pos) ==
  {ReadFrame(f, pos)} \cup
  (IF Overrun(f, pos)
     THEN {[ret |-> -1, err |-> "crash", frame |-> FrameNone, pos |-> pos]}
     ELSE {})

(***************************************************************************)
(* Writing and reading a trace file                                        *)
(***************************************************************************)

\* kernel names handed to the writer: the empty name, "k", a name of 255
\* bytes and one of 257 bytes; block sizes, the largest of 16 bits among them
NameK    == <<107>>
NameLong == [i \in 1 .. 257 |-> 97]
NameNone == <<>>
NameFull == [i \in 1 .. 255 |-> 98]
Names    == {NameNone, NameK, NameFull, NameLong}
BlockSizes == {32, 65535}

\* versions handed to trace_write_header
Versions == 1 .. 4

\* an address with its top bit set, and the access size of the samples
AddrA == <<0, 16, 0, 0, 0, 0, 0, 128>>
AddrB == <<64, 16, 0, 0, 0, 0, 0, 128>>
AccessSize == 4

Unit(a, o, c) == [addr |-> a, offset |-> o, count |-> c]

\* a trace_record_t of the given type with the given address units
SampleRecord(type, units) ==
  [addr_len |-> Len(units), type |-> type, smid |-> 3, warp |-> 70000,
   size |-> AccessSize, clock |-> <<1, 2, 3, 4, 5, 6, 7, 8>>,
   ctaid |-> [x |-> 100000, y |-> 515, z |-> 2], addr_unit |-> units]

\* a record without address units (thread execute)
RecExec == SampleRecord(4, <<>>)
\* one access
RecLoad == SampleRecord(1, <<Unit(AddrA, 0, 1)>>)
\* the accesses A, A + size, A + 2 * size as one run
RecRun == SampleRecord(1, <<Unit(AddrA, AccessSize, 3)>>)
\* three address units, one of them walking downwards
RecUnits ==
  SampleRecord(2, <<Unit(AddrA, AccessSize, 2), Unit(AddrB, -AccessSize, 1),
                    Unit(AddrB, 2 * AccessSize, 3)>>)
\* a run whose stride needs more than 24 bits
RecFar == SampleRecord(1, <<Unit(AddrA, 16777216, 2)>>)

Records == {RecExec, RecLoad, RecRun, RecUnits, RecFar}

\* a record frame that announces k address units, complete
Announcing(k) ==
  <<1, 0, 0, 4, 0, 3, 1, k>> \o [i \in 1 .. (RECORD_RAW_SIZE(k) - 8) |-> 0]

\* files that no writer of this library produced: two with a wrong magic,
\* two with a record frame of more units than a warp has threads
ForeignFiles ==
  {<<24>> \o Tail(v2), Take(v3, 9) \o <<0>>,
   v3 \o Announcing(ReaderRoom + 1), v3 \o Announcing(ReaderRoom + 2)}

\* kernel and record frames handed to the writer so far
FramesWritten == Len(SelectSeq(written, LAMBDA w : w.frame.kind # "Header"))

\* the file the session starts from is one another program left behind
Foreign(f) ==
  /\ fpc = "new" /\ file = <<>> /\ written = <<>> /\ ret = -1
  /\ file' = f
  /\ fpc' = "closed"
  /\ UNCHANGED <<ringvars, ctavars, written, cut, rver, rpos, ret, err, got>>

\* cutrace_io.h:312-329 -- trace_write_header(f, version)
TraceWriteHeader(v) ==
  /\ fpc = "new"
  /\ written = <<>>
  /\ file' = IF v = 2 THEN file \o v2 ELSE IF v = 3 THEN file \o v3 ELSE file
  /\ ret' = IF v \in {2, 3} THEN 0 ELSE 1
  /\ err' = IF v \in {2, 3} THEN "NULL" ELSE "invalid version"
  /\ fpc' = IF v \in {2, 3} THEN "write" ELSE "new"
  /\ written' = Append(written, [at |-> Len(file), ret |-> IF v \in {2, 3} THEN 0 ELSE 1,
                                 frame |-> [kind |-> "Header", version |-> v]])
  /\ UNCHANGED <<ringvars, ctavars, cut, rver, rpos, got>>

\* cutrace_io.h:331-354 -- trace_write_kernel(f, name, block_size):
\* name_len = strlen(name) & 0xFF; the header word, then name_len bytes of
\* the name; fwrite of no bytes reports a write error
TraceWriteKernel(name, bs) ==
  LET name_len == BitAnd(Len(name), 255)
      header   == <<0, 0, 0, 0>> \o LE(bs, 2) \o <<name_len, 0>>
      r        == IF name_len = 0 THEN 1 ELSE 0
  IN
  /\ fpc = "write"
  /\ FramesWritten < MaxFrames
  /\ file' = file \o header \o Take(name, name_len)
  /\ ret' = r
  /\ err' = IF name_len = 0 THEN "write error" ELSE "NULL"
  /\ written' = Append(written, [at |-> Len(file), ret |-> r,
                                 frame |-> FrameKernel(name, bs)])
  /\ UNCHANGED <<ringvars, ctavars, fpc, cut, rver, rpos, got>>

\* cutrace_io.h:356-381 -- trace_write_record(f, record): the record is
\* packed and RECORD_RAW_SIZE(addr_len) bytes are written
TraceWriteRecord(r) ==
  /\ fpc = "write"
  /\ FramesWritten < MaxFrames
  /\ \E ss \in ShiftChoices(r) :
       file' = file \o Take(TracePack(r, ss), RECORD_RAW_SIZE(r.addr_len))
  /\ ret' = 0
  /\ written' = Append(written, [at |-> Len(file), ret |-> 0,
                                 frame |-> FrameRecord(r)])
  /\ UNCHANGED <<ringvars, ctavars, fpc, cut, rver, rpos, err, got>>

\* the writer closes the file
CloseFile ==
  /\ fpc \in {"new", "write"}
  /\ written # <<>>
  /\ fpc' = "closed"
  /\ UNCHANGED <<ringvars, ctavars, file, written, cut, rver, rpos, ret, err, got>>

\* the closed file loses its last k bytes
Truncate(k) ==
  /\ fpc = "closed"
  /\ cut = 0
  /\ k <= Len(file)
  /\ file' = Take(file, Len(file) - k)
  /\ cut' = k
  /\ UNCHANGED <<ringvars, ctavars, fpc, written, rver, rpos, ret, err, got>>

\* an open that looks at the first byte of the magic only
TraceOpenFirstByte ==
  /\ fpc = "closed"
  /\ IF Len(file) < 10
       THEN /\ err' = "unable to read version"
            /\ fpc' = "failed"
            /\ UNCHANGED <<rver, rpos>>
     ELSE IF file[1] = v2[1]
       THEN /\ rver' = 2 /\ rpos' = 10 /\ fpc' = "read" /\ UNCHANGED err
     ELSE IF file[1] = v3[1]
       THEN /\ rver' = 3 /\ rpos' = 10 /\ fpc' = "read" /\ UNCHANGED err
     ELSE /\ err' = "invalid version"
          /\ fpc' = "failed"
          /\ UNCHANGED <<rver, rpos>>
  /\ UNCHANGED <<ringvars, ctavars, file, written, cut, ret, got>>

\* cutrace_io.h:84-108 -- trace_open(f)
TraceOpen ==
  /\ fpc = "closed"
  /\ IF Len(file) < 10
       THEN /\ err' = "unable to read version"
            /\ fpc' = "failed"
            /\ UNCHANGED <<rver, rpos>>
     ELSE IF Take(file, 10) = v2
       THEN /\ rver' = 2 /\ rpos' = 10 /\ fpc' = "read" /\ UNCHANGED err
     ELSE IF Take(file, 10) = v3
       THEN /\ rver' = 3 /\ rpos' = 10 /\ fpc' = "read" /\ UNCHANGED err
     ELSE /\ err' = "invalid version"
          /\ fpc' = "failed"
          /\ UNCHANGED <<rver, rpos>>
  /\ UNCHANGED <<ringvars, ctavars, file, written, cut, ret, got>>

\* cutrace_io.h:164-253 -- trace_next(t)
TraceNext ==
  /\ fpc = "read"
  /\ \E o \in ReadOutcomes(file, rpos) :
       /\ ret' = o.ret
       /\ err' = o.err
       /\ rpos' = o.pos
       /\ got' = IF o.ret = 0 THEN Append(got, [at |-> rpos, frame |-> o.frame])
                 ELSE got
       /\ fpc' = IF o.ret = 0 THEN "read"
                 ELSE IF o.ret = 1 THEN "end" ELSE "crashed"
  /\ UNCHANGED <<ringvars, ctavars, file, written, cut, rver>>

FileInit ==
  /\ Init
  /\ smid = [g \in Groups |-> 0]

FileNext ==
  \/ \E f \in ForeignFiles : Foreign(f)
  \/ \E v \in Versions : TraceWriteHeader(v)
  \/ \E name \in Names, bs \in BlockSizes : TraceWriteKernel(name, bs)
  \/ \E r \in Records : TraceWriteRecord(r)
  \/ CloseFile
  \/ \E k \in 1 .. MaxCut : Truncate(k)
  \/ TraceOpen
  \/ TraceNext

\* one trace file written, closed, possibly damaged, and read back
FileSpec == FileInit /\ [][FileNext]_vars


(***************************************************************************)
(* Properties                                                              *)
(***************************************************************************)

\* the shard of a group, the room left in a shard, the lanes holding a slot
ShardOfGroup(g) == ShardOf(smid[g])
Room(s) == SLOTS_SIZE - (alloc[s] - commit[s])
Held(g) == {l \in Lanes : slot[g][l] # NoSlot}
GroupsOn(s) == {g \in Groups : ShardOfGroup(g) = s}

\* C1: in every reachable state of every shard,
\* commit <= alloc <= commit + capacity (capacity = SLOTS_SIZE).
C1_CapacityInvariant ==
  \A s \in Shards :
    /\ commit[s] <= alloc[s]
    /\ alloc[s] <= commit[s] + SLOTS_SIZE

\* C1 witness: a shard is full at the upper bound after reserve, write,
\* advance_commit and drain have all acted on it.
C1_Witness ==
  \E s \in Shards :
    /\ alloc[s] = commit[s] + SLOTS_SIZE
    /\ commit[s] > 0
    /\ last_drained[s] > 0

\* the number of times the record reserved at index i of shard s was
\* forwarded to the stream, and the record ids of shard s in stream order
Forwarded(s, i) ==
  Cardinality({k \in DOMAIN stream : stream[k] = RecordFrame(s, i)})
ShardFrames(s) ==
  SelectSeq(stream, LAMBDA f : f.kind = "record" /\ f.shard = s)

\* C2: every record that becomes committed in a shard is forwarded to the
\* stream exactly once over the session: never twice, once as soon as the
\* Drainer has passed its index, and once when the session has ended.
C2_ExactlyOnce ==
  \A s \in Shards : \A i \in 0 .. (commit[s] - 1) :
    /\ Forwarded(s, i) <= 1
    /\ (i < last_drained[s] \/ hostpc = "stopped") => Forwarded(s, i) = 1

\* C3: the records of one shard appear in the stream in reservation
\* order: a record reserved at a lower index is drained before one
\* reserved at a higher index.
C3_FifoPerShard ==
  \A s \in Shards : \A j, k \in DOMAIN ShardFrames(s) :
    j < k => ShardFrames(s)[j].id < ShardFrames(s)[k].id

HeldPositions(g) ==
  {Pos(slot[g][l]) :
     l \in {h \in Held(g) : slot[g][h] >= last_drained[ShardOfGroup(g)]}}

\* C8: the slots held by producers are pairwise disjoint, and no two
\* reservations that are not yet drained map to the same position
\* index mod capacity: no producer writes over another producer's slot or
\* over a committed record the Drainer has not copied out.
C8_DisjointSlots ==
  /\ \A g, h \in Groups :
       (g # h /\ ShardOfGroup(g) = ShardOfGroup(h)) =>
         HeldPositions(g) \cap HeldPositions(h) = {}
  /\ \A s \in Shards : \A i, j \in last_drained[s] .. (alloc[s] - 1) :
       i # j => Pos(i) # Pos(j)

\* C10: once the session is torn down every shard has been drained up to
\* commit, the drop counter equals the number of slots reserved but not
\* written, no such slot is in the stream, and every committed slot is.
C10_TeardownAccounting ==
  hostpc = "stopped" =>
    /\ last_drained = commit
    /\ drops = Unwritten
    /\ \A g \in Groups : \A l \in todo[g] :
         Forwarded(ShardOfGroup(g), slot[g][l]) = 0
    /\ \A s \in Shards : \A i \in 0 .. (commit[s] - 1) : Forwarded(s, i) >= 1

\* one step moves commit of shard s, if at all, forward to the largest
\* p <= alloc such that every slot in [commit, p) has finished writing
AdvancesToPrefix(s) ==
  /\ commit'[s] >= commit[s]
  /\ commit'[s] > commit[s] =>
       /\ commit'[s] <= alloc[s]
       /\ \A i \in commit[s] .. (commit'[s] - 1) : i \in complete[s]
       /\ commit'[s] < alloc[s] => commit'[s] \notin complete[s]

\* commit has not passed a slot that is still to be written
BehindUnwritten ==
  \A g \in Groups : \A l \in todo[g] : commit[ShardOfGroup(g)] <= slot[g][l]

\* C5: advance_commit never decreases commit and leaves it at the largest
\* p <= alloc such that every slot in [old commit, p) has finished writing;
\* commit does not pass the slots of a group that has not completed, also
\* when a group that reserved later has completed first.
C5_AdvanceCommitPrefix ==
  /\ []BehindUnwritten
  /\ [][\A s \in Shards : AdvancesToPrefix(s)]_vars

\* C5 witness: commit has advanced and stopped in front of an unwritten
\* slot while a slot reserved later has already finished.
C5_Witness ==
  \E g \in Groups : \E l \in todo[g] :
    /\ commit[ShardOfGroup(g)] > 0
    /\ commit[ShardOfGroup(g)] = slot[g][l]
    /\ \E i \in complete[ShardOfGroup(g)] : i > slot[g][l]

\* while the kernel runs, a group waiting in reserve can proceed exactly
\* when its batch fits
WaitsWhileFull ==
  \A g \in Groups :
    (hostpc = "launched" /\ pc[g] = "waiting") =>
      (ENABLED Reserve(g) <=> n[g] <= Room(ShardOfGroup(g)))

\* alloc of shard s changes only by a waiting group whose batch fits, and
\* then by the size of that batch, which is taken from the room left
AllocOnlyByFittingBatch(s) ==
  alloc'[s] # alloc[s] =>
    \E g \in GroupsOn(s) :
      /\ pc[g] = "waiting" /\ pc'[g] = "writing"
      /\ n[g] <= Room(s)
      /\ alloc'[s] = alloc[s] + n[g]
      /\ Room(s)' = Room(s) - n[g]

\* room is made only by commit, by as many slots as commit advances
RoomOnlyByCommit(s) ==
  Room(s)' > Room(s) =>
    /\ alloc'[s] = alloc[s]
    /\ Room(s)' = Room(s) + (commit'[s] - commit[s])

\* C6: a reserve that does not fit does not return and leaves alloc
\* unchanged until commit has advanced; commit advancing by k makes room
\* for exactly k slots, so exactly k waiting single-slot reservations
\* succeed and the others keep waiting.
C6_ReserveBlocksUntilCommit ==
  /\ []WaitsWhileFull
  /\ [][\A s \in Shards : AllocOnlyByFittingBatch(s) /\ RoomOnlyByCommit(s)]_vars

\* C6 witness: on a full shard commit advanced, one waiting single-slot
\* reservation took the freed slot (its index is beyond the first lap) and
\* another single-slot reservation is still waiting on the full shard.
C6_Witness ==
  \E s \in Shards : \E g, h \in GroupsOn(s) :
    /\ Room(s) = 0
    /\ pc[g] = "waiting" /\ n[g] = 1
    /\ pc[h] = "writing" /\ n[h] = 1 /\ slot[h][1] = commit[s] + SLOTS_SIZE - 1
    /\ commit[s] > 0

\* a group holds a slot for every active thread, consecutive ones, or for
\* none; the slot of another group is never among them
HoldsAllOrNone ==
  \A g \in Groups :
    /\ \/ /\ pc[g] = "writing"
          /\ Held(g) = 1 .. n[g]
          /\ \A l \in 1 .. n[g] : slot[g][l] = slot[g][1] + (l - 1)
       \/ /\ pc[g] # "writing"
          /\ Held(g) = {}
    /\ \A h \in GroupsOn(ShardOfGroup(g)) \ {g} :
         \A lg \in Held(g), lh \in Held(h) :
           ~ (slot[g][1] <= slot[h][lh] /\ slot[h][lh] <= slot[g][lg])

\* a waiting group either obtains its n consecutive slots in one step, alloc
\* advancing by n in that step, or obtains none and goes on waiting
BatchStep(g) ==
  pc[g] = "waiting" =>
    \/ /\ pc'[g] = "writing"
       /\ alloc'[ShardOfGroup(g)] = alloc[ShardOfGroup(g)] + n[g]
       /\ \A l \in Lanes :
            slot'[g][l] = IF l <= n[g] THEN alloc[ShardOfGroup(g)] + (l - 1)
                          ELSE NoSlot
    \/ /\ pc'[g] = "waiting"
       /\ slot'[g] = NoSlots

\* C7: a lockstep group reserves as one batch: all of its threads obtain
\* consecutive slots in one step or all of them wait; no state has only
\* some threads of a group holding a slot, and no slot of another group
\* lies between the slots of a group.
C7_BatchReserve ==
  /\ []HoldsAllOrNone
  /\ [][\A g \in Groups : BatchStep(g)]_vars

\* C7 witness: on one shard a full group holds its slots, a second group
\* holds the slot next to them, and a third full group waits as a whole
\* because its batch does not fit.
C7_Witness ==
  \E s \in Shards : \E g, h, k \in GroupsOn(s) :
    /\ g # h /\ h # k /\ g # k
    /\ pc[g] = "writing" /\ n[g] = WarpSize
    /\ pc[h] = "writing" /\ slot[h][1] = slot[g][1] + WarpSize
    /\ pc[k] = "waiting" /\ n[k] = WarpSize /\ Room(s) < n[k]

\* The placements of the groups on processors up to renaming: all groups
\* on one processor, or the last group on another one.
InitFair ==
  /\ Init
  /\ smid \in {[g \in Groups |-> 0],
              [g \in Groups |-> IF g = NumGroups THEN MaxSmid ELSE 0]}

\* The session under fair scheduling: a thread that holds a slot writes its
\* record, a finished prefix is committed, the Drainer keeps visiting the
\* shards, and a group whose batch fits again and again is served.
FairSpec ==
  /\ InitFair
  /\ [][Next]_vars
  /\ \A g \in Groups : SF_vars(Reserve(g))
  /\ \A g \in Groups : WF_vars(\E l \in Lanes : Write(g, l))
  /\ \A s \in Shards : WF_vars(AdvanceCommit(s))
  /\ WF_vars(Drain)

\* the wait in reserve ends only by the group obtaining its slots
WaitNeverFails ==
  \A g \in Groups : pc[g] = "waiting" => pc'[g] \in {"waiting", "writing"}

WrittenAt(p) ==
  {w \in {written[i] : i \in DOMAIN written} :
     w.at = p /\ w.frame.kind # "Header" /\ w.ret = 0}
GotAt(p) == {g.frame : g \in {g \in {got[j] : j \in DOMAIN got} : g.at = p}}

\* C11: a record whose fields lie within their declared widths is unpacked
\* as it was packed, field by field: whenever the reader unpacks a record
\* from the place where the writer packed record r, it has r.
C11_PackUnpackRoundTrip ==
  \A w \in {written[i] : i \in DOMAIN written} :
    w.frame.kind = "Record" =>
      \A g \in GotAt(w.at) : g.kind = "Record" => g.rec = w.frame.rec

\* two frames are the same frame
SameFrame(a, b) ==
  /\ a.kind = b.kind
  /\ a.kind = "Kernel" => (a.name = b.name /\ a.block_size = b.block_size)
  /\ a.kind = "Record" => a.rec = b.rec

\* the file is as the writer left it, and the writer wrote a header first
FileIntact == cut = 0 /\ written # <<>> /\ written[1].ret = 0

\* C12: after write_header(v) and any sequence of write_kernel and
\* write_record calls, reopening the file and calling next until it
\* returns 1 has yielded the written frames, in order, and ends with Eof
\* (return 1, trace_last_error NULL).
C12_FramesReadBack ==
  (fpc = "end" /\ FileIntact) =>
    /\ Len(got) = Len(written) - 1
    /\ \A j \in DOMAIN got :
         j + 1 <= Len(written) => SameFrame(got[j].frame, written[j + 1].frame)
    /\ ret = 1 /\ err = "NULL"

\* the bytes a frame takes in the file
FrameSize(fr) ==
  IF fr.kind = "Kernel" THEN 8 + BitAnd(Len(fr.name), 255)
  ELSE RECORD_RAW_SIZE(fr.rec.addr_len)

\* the frames handed to the writer after the header
FramesOf(ws) == [j \in 1 .. (Len(ws) - 1) |-> ws[j + 1].frame]

\* the reader has reported a clean end: return 1, trace_last_error NULL
CleanEof == fpc = "end" /\ ret = 1 /\ err = "NULL"

\* the last frame of a file of this library has been cut short
LastFrameCut ==
  /\ cut > 0
  /\ Len(written) >= 2
  /\ written[1].ret = 0
  /\ cut < FrameSize(written[Len(written)].frame)

\* C13: next reports Eof only when the file ends at a frame boundary; when
\* the last frame of a valid file is cut short, next returns the frames
\* before it unchanged and then fails with an error on the damaged frame:
\* it returns no further frame and reports no clean end.
C13_TruncationDetected ==
  /\ (CleanEof /\ Len(written) >= 1 /\ written[1].ret = 0) => cut = 0
  /\ (fpc = "end" /\ LastFrameCut) =>
       /\ Len(got) = Len(written) - 2
       /\ \A j \in DOMAIN got :
            j <= Len(written) - 2 => SameFrame(got[j].frame, FramesOf(written)[j])
       /\ ret = 1 /\ err # "NULL"

\* a reader exists
Opened == fpc \in {"read", "end"}

\* C14: trace_open returns a reader of version 2 exactly when the first 10
\* bytes are the v2 magic, of version 3 exactly when they are the v3 magic,
\* and otherwise (other bytes, fewer than 10 bytes) no reader and an error;
\* write_header(v), v in {2, 3}, then trace_open gives version v, and
\* write_header of another version fails and writes nothing.
C14_OpenDetectsVersion ==
  /\ Opened =>
       /\ Len(file) >= 10
       /\ rver \in {2, 3}
       /\ rver = 2 <=> Take(file, 10) = v2
       /\ rver = 3 <=> Take(file, 10) = v3
  /\ fpc = "failed" =>
       /\ rver = 0
       /\ err \in {"unable to read version", "invalid version"}
       /\ Len(file) < 10 \/ Take(file, 10) \notin {v2, v3}
  /\ (Opened /\ written # <<>> /\ cut = 0) => rver = written[1].frame.version
  /\ (written # <<>> /\ written[1].frame.version \notin {2, 3}) =>
       /\ written[1].ret = 1
       /\ file = <<>>
       /\ fpc = "new" => (ret = 1 /\ err = "invalid version")

\* C14 witness: a file written with write_header(3) and frames after it was
\* opened, and the reader has version 3.
C14_Witness ==
  /\ Opened /\ rver = 3
  /\ Len(written) >= 2 /\ written[1].frame.version = 3

\* a field of the frame is wider than the place the file has for it: a
\* kernel name of more than 255 bytes, an offset outside 24 bits
Oversized(fr) ==
  IF fr.kind = "Kernel" THEN Len(fr.name) > 255
  ELSE fr.kind = "Record" /\
       \E i \in 1 .. fr.rec.addr_len :
         fr.rec.addr_unit[i].offset \notin (-8388608) .. 8388607

\* the bytes written for w decode to the frame that was passed in
Carried(w) ==
  LET o == ReadFrame(file, w.at) IN o.ret = 0 /\ SameFrame(o.frame, w.frame)

\* C18: the writer stores no silently truncated value: a call whose frame
\* has a field wider than its place in the file fails, or what it wrote
\* decodes to the value passed in.
C18_NoSilentTruncation ==
  cut = 0 =>
    \A i \in DOMAIN written :
      Oversized(written[i].frame) => (written[i].ret # 0 \/ Carried(written[i]))

\* an integer of less than 32 bits as the eight bytes of an int64_t
Int64Bytes(d) == Int32Bytes(d) \o SignExt(Int32Bytes(d))

RECURSIVE AddBytes(_, _, _)
\* the sum of two 64-bit words, byte by byte with carry
AddBytes(a, b, c) ==
  IF a = <<>> THEN <<>>
  ELSE <<(Head(a) + Head(b) + c) % 256>>
       \o AddBytes(Tail(a), Tail(b), (Head(a) + Head(b) + c) \div 256)

\* address a moved by d bytes
AddrPlus(a, d) == AddBytes(a, Int64Bytes(d), 0)

\* one logical access of a record
Access(rec, a) ==
  [address |-> a, size |-> rec.size, kind |-> rec.type, cta |-> rec.ctaid,
   warp |-> rec.warp, sm |-> rec.smid]

\* the accesses one address unit stands for: count accesses, offset apart
UnitAccesses(rec, u) ==
  [j \in 1 .. (IF u.count > 0 THEN u.count ELSE 0) |->
     Access(rec, AddrPlus(u.addr, (j - 1) * u.offset))]

RECURSIVE AccessesFrom(_, _)
AccessesFrom(rec, i) ==
  IF i > rec.addr_len THEN <<>>
  ELSE UnitAccesses(rec, rec.addr_unit[i]) \o AccessesFrom(rec, i + 1)

\* the ordered logical accesses a record expands to
Accesses(rec) == AccessesFrom(rec, 1)

RECURSIVE SumCounts(_, _)
\* the sum of the repeat counts of the units from i on
SumCounts(rec, i) ==
  IF i > rec.addr_len THEN 0
  ELSE rec.addr_unit[i].count + SumCounts(rec, i + 1)

\* a record as the reader returns it after the writer packed it
ReadBack(r) == TraceUnpack(TracePack(r, CHOOSE ss \in ShiftChoices(r) : TRUE))

\* the record of the single access at address a, otherwise like rec
LoadAt(rec, a) == [rec EXCEPT !.addr_len = 1, !.addr_unit = <<Unit(a, 0, 1)>>]

RECURSIVE SinglesFrom(_, _)
\* what the individual records of the accesses of a one-unit run, from the
\* j-th on, expand to after they were written and read back
SinglesFrom(rec, j) ==
  IF j > rec.addr_unit[1].count THEN <<>>
  ELSE Accesses(ReadBack(LoadAt(rec, AddrPlus(rec.addr_unit[1].addr, (j - 1) * rec.size))))
       \o SinglesFrom(rec, j + 1)

\* a run of one unit over addresses A, A + size, A + 2 * size, ...
StrideRun(rec) ==
  /\ rec.addr_len = 1
  /\ rec.addr_unit[1].count >= 1
  /\ rec.addr_unit[1].offset = rec.size

Compressed(rec) ==
  \/ rec.addr_len > 1
  \/ \E i \in 1 .. rec.addr_len : rec.addr_unit[i].count # 1

\* C20: a file whose header is version 2 holds one-event records only: after
\* write_header(2) no write_record call puts a compressed record into the
\* file, and a reader of version 2 never returns one.
C20_Version2Uncompressed ==
  /\ (written # <<>> /\ written[1].frame.version = 2) =>
       \A i \in DOMAIN written :
         (written[i].frame.kind = "Record" /\ Compressed(written[i].frame.rec)) =>
           (written[i].ret # 0 /\ (i = Len(written) => Len(file) = written[i].at))
  /\ rver = 2 =>
       \A j \in DOMAIN got :
         got[j].frame.kind = "Record" => ~Compressed(got[j].frame.rec)


(***************************************************************************)
(* The serialized cta id: InstrumentDevice.cpp (setupTraceInfo) and the    *)
(* "cta" option of RegisterStandardPasses.cpp.  A 64-bit word is its eight *)
(* bytes, least significant first; a shift is by whole bytes.              *)
(***************************************************************************)

Zeros(k) == [i \in 1 .. k |-> 0]

\* CreateZExt(v, i64_ty) of a 32-bit register
ZExt(w) == w \o Zeros(8 - Len(w))

\* CreateLShr(v, bits): the logical shift to the right
LShr(v, bits) == Drop(v, bits \div 8) \o Zeros(bits \div 8)

\* v << bits on a uint64_t
Shl(v, bits) == Zeros(bits \div 8) \o Take(v, 8 - bits \div 8)

\* v & 0xFFFF
And16(v) == Take(v, 2) \o Zeros(Len(v) - 2)

\* CreateOr(a, b)
Or64(a, b) == [i \in 1 .. 8 |-> BitOr(a[i], b[i])]

\* the values of %ctaid.x (32 bits) and of %ctaid.y, %ctaid.z (16 bits)
CtaX == {LE(0, 4), LE(1, 4), <<2, 0, 1, 0>>, <<255, 255, 255, 255>>}
CtaYZ == {LE(0, 4), LE(1, 4), <<3, 2, 0, 0>>, <<255, 255, 0, 0>>}

\* InstrumentDevice.cpp:413-420 -- ctaid_serialized
CtaSerialized(c) ==
  LET cta_arg_x == LShr(ZExt(c[1]), 32)
      cta_arg_y == LShr(And16(ZExt(c[2])), 16)
      cta_arg_z == And16(ZExt(c[3]))
  IN  Or64(Or64(cta_arg_x, cta_arg_y), cta_arg_z)

\* RegisterStandardPasses.cpp:121-124 -- ctaid_conv
CtaidConv(c) ==
  AddBytes(AddBytes(Shl(ZExt(c[1]), 32), Shl(ZExt(And16(c[2])), 16), 0),
           And16(ZExt(c[3])), 0)

\* Common.h:21, 31
RECORD_SIZE == 24
CACHELINE == 64

\* the values of %smid
SmIds == {0, 1, 2, 3, 4, 6, 255, 2147483647}

\* InstrumentDevice.cpp:429-451 -- the shard of a thread and the offsets of
\* its counters and of its records, in bytes from allocs, commits, records
\* (32-bit products; slot < SLOTS_NUM keeps them far below 2^32)
ShardOffsets(sm) ==
  LET slot_v == ShardOf(sm)
      base_i == slot_v * CACHELINE
      slot_i == (slot_v * SLOTS_SIZE) * RECORD_SIZE
  IN  [slot |-> slot_v, allocs |-> base_i, commits |-> base_i,
       records |-> slot_i]

\* a thread of cta c on processor a and a thread on processor b enter an
\* instrumented kernel
Enter(c, a, b) ==
  /\ ctaid = <<>>
  /\ ctaid' = c
  /\ sms' = <<a, b>>
  /\ UNCHANGED <<ringvars, iovars, cta_arg, cta_opt, ctapc, info>>

\* InstrumentDevice.cpp:387-460 -- setupTraceInfo: info->cta_arg
SetupTraceInfo ==
  /\ ctaid # <<>>
  /\ "device" \notin ctapc
  /\ cta_arg' = CtaSerialized(ctaid)
  /\ info' = [t \in DOMAIN sms |-> ShardOffsets(sms[t])]
  /\ ctapc' = ctapc \cup {"device"}
  /\ UNCHANGED <<ringvars, iovars, ctaid, cta_opt, sms>>

\* RegisterStandardPasses.cpp:107-125 -- the option cta=x/y/z names this cta
ParseCtaOption ==
  /\ ctaid # <<>>
  /\ "option" \notin ctapc
  /\ cta_opt' = CtaidConv(ctaid)
  /\ ctapc' = ctapc \cup {"option"}
  /\ UNCHANGED <<ringvars, iovars, ctaid, cta_arg, sms, info>>

CtaNext ==
  \/ \E x \in CtaX, y \in CtaYZ, z \in CtaYZ, a \in SmIds, b \in SmIds :
       Enter(<<x, y, z>>, a, b)
  \/ SetupTraceInfo
  \/ ParseCtaOption

\* one cta, serialized by the device code and packed by the filter option
CtaSpec == Init /\ [][CtaNext]_vars

\* (x << 32) | ((y & 0xFFFF) << 16) | (z & 0xFFFF)
CtaPacked(c) == Take(c[3], 2) \o Take(c[2], 2) \o c[1]

\* C17: the serialized cta id handed to the trace call is
\* (x << 32) | ((y & 0xFFFF) << 16) | (z & 0xFFFF): it equals the word the
\* cta filter option builds, the reader's x, y and z fields decode it to the
\* triple, and so two different triples never serialize to the same word.
C17_CtaSerialization ==
  "device" \in ctapc =>
    /\ cta_arg = CtaPacked(ctaid)
    /\ "option" \in ctapc => cta_arg = cta_opt
    /\ LET word == Zeros(16) \o cta_arg
       IN  /\ RECORD_GET_CTAX(word) = Val(ctaid[1])
           /\ RECORD_GET_CTAY(word) = Val(ctaid[2])
           /\ RECORD_GET_CTAZ(word) = Val(ctaid[3])

\* the call the host made last, and the calls that may follow it
HostOrder ==
  {<<"configured", "touched">>, <<"touched", "started">>,
   <<"started", "filled">>, <<"filled", "copied">>,
   <<"copied", "launched">>, <<"launched", "stopped">>,
   <<"copied", "skipped">>,
   <<"stopped", "configured">>, <<"skipped", "configured">>}

HostStep == hostpc' # hostpc => <<hostpc, hostpc'>> \in HostOrder

\* C15: around every instrumented launch the host calls run in the order
\* touch, start, fill_info, copy_to_symbol, the launch, stop: no stop comes
\* before its launch, no launch before the start and the copy_to_symbol of
\* the same launch.
C15_HostCallOrder == [][HostStep]_vars

\* C15 witness: the second launch of the session has run all its calls, the
\* frame of its start being the last kernel frame of the stream.
C15_Witness ==
  /\ kernel = 2
  /\ hostpc = "stopped"
  /\ \E j \in DOMAIN stream :
       /\ stream[j] = KernelFrame(2)
       /\ \A m \in j + 1 .. Len(stream) : stream[m].kind = "record"

\* the kernel of the last kernel frame before frame j, 0 if there is none
LastKernelBefore(j) ==
  LET K == {i \in 1 .. j - 1 : stream[i].kind = "kernel"}
  IN  IF K = {} THEN 0 ELSE stream[Max(K)].id

Undrained(s) ==
  [k \in 1 .. (commit[s] - last_drained[s]) |->
     RecordFrame(s, records[s][Pos(last_drained[s] + k - 1)])]

\* a step of the running session that moves the Drainer's cursor is a
\* drain of the shard under the cursor
DrainEffect ==
  (hostpc = "launched" /\ hostpc' = "launched" /\ cursor' # cursor) =>
    /\ stream' = stream \o Undrained(cursor)
    /\ last_drained'[cursor] = commit[cursor]
    /\ \A t \in Shards \ {cursor} : last_drained'[t] = last_drained[t]
    /\ alloc' = alloc /\ commit' = commit /\ records' = records
    /\ complete' = complete

\* a step of a producer (request, reserve, write, advance_commit) is one
\* that changes the state of a group or a counter of the producers
ProducerStep ==
  \/ <<pc, n, slot, todo>>' # <<pc, n, slot, todo>>
  \/ alloc' # alloc
  \/ commit' # commit
  \/ records' # records

\* C21: drain(shard) yields the slots at the indices [last_drained, commit)
\* as read at its start and sets last_drained to that commit; it leaves
\* alloc, commit and records of the shard and every other shard as they
\* are; no step of a producer changes last_drained; last_drained <= commit
\* in every reachable state.
C21_DrainFrame ==
  /\ [](\A s \in Shards : last_drained[s] <= commit[s])
  /\ [][DrainEffect /\ (ProducerStep => last_drained' = last_drained)]_vars

\* C21 witness: the Drainer has drained two records of a shard at least and
\* passed on, while a committed record of another shard waits for it and a
\* producer holds a slot.
C21_Witness ==
  \E s, t \in Shards :
    /\ s # t
    /\ last_drained[s] >= 2
    /\ cursor # s
    /\ last_drained[t] < commit[t]
    /\ \E g \in Groups : todo[g] # {}

\* width of a counter in bytes (unsigned, read modulo 2^32)
CounterBytes == 4

\* the bytes of its counters and of its records a thread may touch
CounterRange(i) == i.allocs .. (i.allocs + CounterBytes - 1)
RecordRange(i, p) ==
  (i.records + p * RECORD_SIZE) .. (i.records + (p + 1) * RECORD_SIZE - 1)
RecordRegion(i) == UNION {RecordRange(i, p) : p \in Positions}

\* C23: the shard computed at kernel entry is smid & (SLOTS_NUM - 1), which
\* is smid mod SLOTS_NUM and lies in [0, SLOTS_NUM); the counter at
\* slot * CACHELINE and the records in [slot * SLOTS_SIZE * RECORD_SIZE,
\* (slot + 1) * SLOTS_SIZE * RECORD_SIZE) of two different shards never
\* overlap.
C23_ShardsDisjoint ==
  "device" \in ctapc =>
    /\ \A t \in DOMAIN info :
         /\ info[t].slot = sms[t] % SLOTS_NUM
         /\ info[t].slot \in 0 .. (SLOTS_NUM - 1)
         /\ info[t].allocs = info[t].slot * CACHELINE
         /\ RecordRegion(info[t]) =
              (info[t].slot * SLOTS_SIZE * RECORD_SIZE)
                .. ((info[t].slot + 1) * SLOTS_SIZE * RECORD_SIZE - 1)
    /\ info[1].slot # info[2].slot =>
         /\ CounterRange(info[1]) \cap CounterRange(info[2]) = {}
         /\ RecordRegion(info[1]) \cap RecordRegion(info[2]) = {}

\* C23 witness: two threads on processors beyond SLOTS_NUM have computed
\* the offsets of two neighbouring shards.
C23_Witness ==
  /\ "device" \in ctapc
  /\ sms = <<6, 255>>
  /\ info[1].slot = 2 /\ info[2].slot = 3

\* the records the writer wrote into the file, with their place
RecordsWritten ==
  {w \in {written[i] : i \in DOMAIN written} :
     w.frame.kind = "Record" /\ w.ret = 0}

\* C24: every frame written by trace_write_record, also one of a record
\* without address units, starts with a word whose top byte is not the
\* kernel sentinel 0x00, and trace_next at its place returns a record frame
\* (new_kernel = 0) and leaves the reader at the frame's end.
C24_RecordNeverKernel ==
  cut = 0 =>
    \A w \in RecordsWritten :
      /\ file[w.at + 8] # 0
      /\ \A g \in GotAt(w.at) : g.kind = "Record"
      /\ ReadFrame(file, w.at).ret = 0 =>
           ReadFrame(file, w.at).pos = w.at + FrameSize(w.frame)

\* C25: trace_next never reads or unpacks more address units than the
\* reader has room for: a record it hands out has at most 32 units, it
\* never writes beyond its memory, and a frame announcing more units has
\* been turned down with an error.
C25_UnitsWithinRoom ==
  /\ \A j \in DOMAIN got :
       got[j].frame.kind = "Record" =>
         got[j].frame.rec.addr_len <= ReaderRoom
  /\ fpc # "crashed"
  /\ \A j \in DOMAIN got : file[got[j].at + 8] <= ReaderRoom

\* the place in the file where the bytes of the i-th call of the writer end
EndOf(i) == IF i < Len(written) THEN written[i + 1].at ELSE Len(file)

\* C26: for a kernel name of 0 to 255 bytes and a 16-bit block size
\* trace_write_kernel succeeds and writes the 8-byte header and the bytes
\* of the name, and trace_next on that frame returns the name and the
\* block size with new_kernel = 1; a call that returns an error has
\* written nothing.
C26_KernelFrameRoundTrip ==
  cut = 0 =>
    \A i \in DOMAIN written :
      written[i].frame.kind = "Kernel" =>
        /\ Len(written[i].frame.name) <= 255 =>
             /\ written[i].ret = 0
             /\ EndOf(i) = written[i].at + 8 + Len(written[i].frame.name)
             /\ SubSeq(file, written[i].at + 9, EndOf(i)) = written[i].frame.name
             /\ ReadFrame(file, written[i].at).ret = 0
             /\ ReadFrame(file, written[i].at).frame = written[i].frame
             /\ \A g \in GotAt(written[i].at) : g = written[i].frame
        /\ written[i].ret # 0 => EndOf(i) = written[i].at

\* the counters of shard s have all passed their width
Wrapped(s) ==
  /\ base < CounterMod
  /\ alloc[s] >= CounterMod /\ commit[s] >= CounterMod

\* the stored counters give the true differences, within the capacity
WrapCapacity(s) ==
  /\ Diff(alloc[s], commit[s]) = alloc[s] - commit[s]
  /\ Diff(commit[s], last_drained[s]) = commit[s] - last_drained[s]
  /\ Diff(alloc[s], commit[s]) <= SLOTS_SIZE

\* the records of shard s are in the stream in reservation order
WrapFifo(s) ==
  \A j, k \in DOMAIN ShardFrames(s) :
    j < k => ShardFrames(s)[j].id < ShardFrames(s)[k].id

\* every committed record of shard s is forwarded once, none twice
WrapOnce(s) ==
  \A i \in base .. (commit[s] - 1) :
    /\ Forwarded(s, i) <= 1
    /\ (i < last_drained[s] \/ hostpc = "stopped") => Forwarded(s, i) = 1

\* C22: with alloc and commit read modulo their width, the capacity test,
\* the position index mod capacity and the drained range stay right across
\* a wrap: the capacity invariant holds throughout, and on a shard whose
\* counters have wrapped the drained records are in reservation order and
\* every committed record was drained exactly once.
C22_WrapSafe ==
  \A s \in Shards :
    /\ WrapCapacity(s)
    /\ Wrapped(s) => (WrapFifo(s) /\ WrapOnce(s))

=============================================================================
